---------------------------- MODULE Spec2Model ----------------------------
(***************************************************************************)
(* A model of src/src/noether_path_planner.cpp: margin trimming            *)
(* (applyMargins), segment sequencing (sequence) and quaternion averaging  *)
(* (average).                                                              *)
(*                                                                         *)
(* Numbers.  The code computes in double; the model computes in integers.  *)
(* Lengths are counted in units of 0.5 mm, so that the tolerance 1e-3 m of *)
(* approxEqual is Eps = 2 units and an approximate match that is not an    *)
(* exact one exists (a difference of one unit).  Rounding is not modelled. *)
(*                                                                         *)
(* Rotations.  Orientations are drawn from the rotations by 0 or 180       *)
(* degrees about the coordinate axes.  Their matrices are diagonal, so a   *)
(* rotation matrix is held as its diagonal <<r11, r22, r33>>, and their    *)
(* quaternions are the signed unit basis quaternions, so Q * Q^T is a      *)
(* diagonal matrix whose eigenvalues and eigenvectors are known exactly.   *)
(***************************************************************************)
EXTENDS Integers, Sequences, FiniteSets

VARIABLES
    pc,               \* "call" before the function under study runs, then how it ended
    segment,          \* applyMargins: the segment argument
    offset,           \* applyMargins: the offset argument
    forward_index,    \* applyMargins: local (1-based; the code's value plus one)
    forward_dist,     \* applyMargins: local
    reverse_index,    \* applyMargins: local (1-based; the code's value plus one)
    reverse_dist,     \* applyMargins: local
    new_segment,      \* applyMargins: the returned segment
    input,            \* sequence: the argument (a list of PoseArray)
    ref_inv,          \* sequence: ref_inv of toEndPoints, from avg_quaternion
    end_points,       \* sequence: local, after std::sort
    seq_points,       \* sequence: local `sequence`, the list of SequencePoint
    output,           \* sequence: the returned list of PoseArray
    qs,               \* average: the argument
    avg               \* average: the returned quaternion

vars == <<pc, segment, offset, forward_index, forward_dist, reverse_index,
          reverse_dist, new_segment, input, ref_inv, end_points,
          seq_points, output, qs, avg>>

marginVars == <<segment, offset, forward_index, forward_dist, reverse_index,
                reverse_dist, new_segment>>
sequenceVars == <<input, ref_inv, end_points, seq_points, output>>
averageVars == <<qs, avg>>

---------------------------------------------------------------------------
(* Bounds of the model *)

MaxPoses == 3        \* poses of a segment handed to applyMargins
MaxCoord == 5        \* largest coordinate of such a pose
MaxOffset == 3       \* largest offset handed to applyMargins
MaxSegs == 3         \* segments handed to sequence
MaxQuats == 4        \* quaternions handed to average

---------------------------------------------------------------------------
(* Eigen values: vectors, rotations, quaternions, rigid transforms *)

Abs(a) == IF a < 0 THEN -a ELSE a

Min(a, b) == IF a < b THEN a ELSE b

Vector3d(x, y, z) == <<x, y, z>>

VecSub(a, b) == <<a[1] - b[1], a[2] - b[2], a[3] - b[3]>>

VecAdd(a, b) == <<a[1] + b[1], a[2] + b[2], a[3] + b[3]>>

VecScale(a, k) == <<a[1] * k, a[2] * k, a[3] * k>>

squaredNorm(v) == v[1] * v[1] + v[2] * v[2] + v[3] * v[3]

\* norm(): exact on the vectors the model forms (differences of points of one
\* axis-parallel line); CHOOSE fails, and TLC stops, on any other vector.
norm(v) == CHOOSE n \in 0..squaredNorm(v) : n * n = squaredNorm(v)

\* normalized(): v / norm(v), and v itself when norm(v) = 0.
normalized(v) ==
    IF norm(v) = 0 THEN v
    ELSE <<v[1] \div norm(v), v[2] \div norm(v), v[3] \div norm(v)>>

\* Diagonals of the rotation matrices of the model.
RotIdentity == <<1, 1, 1>>
RotX == <<1, -1, -1>>
RotY == <<-1, 1, -1>>
RotZ == <<-1, -1, 1>>

\* Eigen::AngleAxisd(M_PI, Eigen::Vector3d::UnitZ())
AngleAxisPiZ == RotZ

RotMul(r, s) == <<r[1] * s[1], r[2] * s[2], r[3] * s[3]>>

RotApply(r, v) == <<r[1] * v[1], r[2] * v[2], r[3] * v[3]>>

\* The inverse of a rotation matrix is its transpose; a diagonal one is its own.
RotInverse(r) == r

Quaterniond(w, x, y, z) == [w |-> w, x |-> x, y |-> y, z |-> z]

\* Quaterniond::coeffs(): the coefficients in the order x, y, z, w.
coeffs(q) == <<q.x, q.y, q.z, q.w>>

\* Quaterniond::toRotationMatrix(), its diagonal.
toRotationMatrix(q) ==
    << 1 - 2 * (q.y * q.y + q.z * q.z),
       1 - 2 * (q.x * q.x + q.z * q.z),
       1 - 2 * (q.x * q.x + q.y * q.y) >>

\* Quaterniond(Matrix3d): w > 0 when the trace is positive, else the component
\* of the largest diagonal entry is the positive one.
QuaternionOfMatrix(r) ==
    IF r[1] + r[2] + r[3] > 0 THEN Quaterniond(1, 0, 0, 0)
    ELSE IF r[1] >= r[2] /\ r[1] >= r[3] THEN Quaterniond(0, 1, 0, 0)
    ELSE IF r[2] >= r[3] THEN Quaterniond(0, 0, 1, 0)
    ELSE Quaterniond(0, 0, 0, 1)

Affine3d(t, r) == [translation |-> t, linear |-> r]

---------------------------------------------------------------------------
(* MARGIN CODE *)

pointDistance(a, b) == norm(VecSub(a.translation, b.translation))

RECURSIVE SegmentLengthFrom(_, _)
SegmentLengthFrom(s, i) ==
    IF i > Len(s) THEN 0
    ELSE pointDistance(s[i], s[i - 1]) + SegmentLengthFrom(s, i + 1)

segmentLength(s) == SegmentLengthFrom(s, 2)

\* The tolerance of approxEqual, 1e-3 m, in units of 0.5 mm.
Eps == 2

approxEqual(a, b) == Abs(a - b) < Eps

\* A slip: the length compared with one offset, not two.
TooShort_OneOffset(length, off) == length < off

\* The first test of applyMargins: too short to trim.
TooShort(length, off) == length < 2 * off

\* The forward scan from the code's i (here i is the code's i plus one).
\* index = 1 is the code's forward_index == 0: no cut found.
RECURSIVE ForwardScan(_, _, _)
ForwardScan(s, i, distance_to_go) ==
    IF i > Len(s) THEN [index |-> 1, dist |-> 0]
    ELSE LET segment_dist == pointDistance(s[i], s[i - 1]) IN
         IF approxEqual(segment_dist, distance_to_go)
         THEN [index |-> i, dist |-> 0]
         ELSE IF distance_to_go > segment_dist
         THEN ForwardScan(s, i + 1, distance_to_go - segment_dist)
         ELSE [index |-> i, dist |-> distance_to_go]

\* The reverse scan; idx is the code's idx plus one.
\* index = Len(s) is the code's reverse_index == segment.size() - 1.
RECURSIVE ReverseScan(_, _, _)
ReverseScan(s, idx, distance_to_go) ==
    IF idx < 1 THEN [index |-> Len(s), dist |-> 0]
    ELSE LET segment_dist == pointDistance(s[idx], s[idx + 1]) IN
         IF approxEqual(segment_dist, distance_to_go)
         THEN [index |-> idx, dist |-> 0]
         ELSE IF distance_to_go > segment_dist
         THEN ReverseScan(s, idx - 1, distance_to_go - segment_dist)
         ELSE [index |-> idx, dist |-> distance_to_go]

interp(start, end, dist) ==
    Affine3d(VecAdd(start.translation,
                    VecScale(normalized(VecSub(end.translation, start.translation)), dist)),
             start.linear)

\* The rebuild: new start if forward_dist != 0, the samples forward_index ..
\* reverse_index, new end if reverse_dist != 0.
Rebuild(s, fwd, rev) ==
    (IF fwd.dist # 0 THEN <<interp(s[fwd.index - 1], s[fwd.index], fwd.dist)>> ELSE <<>>)
    \o [k \in 1..(IF rev.index >= fwd.index THEN rev.index - fwd.index + 1 ELSE 0)
          |-> s[fwd.index + k - 1]]
    \o (IF rev.dist # 0 THEN <<interp(s[rev.index + 1], s[rev.index], rev.dist)>> ELSE <<>>)

\* applyMargins(segment, offset): how it ends ("identity", "trimmed", or one of
\* the two throws), its locals and the segment returned.
applyMargins(s, off) ==
    LET fwd == ForwardScan(s, 2, off)
        rev == ReverseScan(s, Len(s) - 1, off)
        none == [index |-> 0, dist |-> 0]
    IN  IF TooShort(segmentLength(s), off)
        THEN [end |-> "identity", fwd |-> none, rev |-> none, value |-> s]
        ELSE IF fwd.index = 1
        THEN [end |-> "threw_forward", fwd |-> fwd, rev |-> none, value |-> <<>>]
        ELSE IF rev.index = Len(s)
        THEN [end |-> "threw_reverse", fwd |-> fwd, rev |-> rev, value |-> <<>>]
        ELSE [end |-> "trimmed", fwd |-> fwd, rev |-> rev, value |-> Rebuild(s, fwd, rev)]

\* The segments handed to applyMargins: non-empty, on the x axis.
MarginRotations == {RotIdentity, RotZ}

MarginPoses ==
    {Affine3d(Vector3d(x, 0, 0), r) : x \in 0..MaxCoord, r \in MarginRotations}

MarginSegments == UNION {[1..n -> MarginPoses] : n \in 1..MaxPoses}

NoSequenceCall ==
    /\ input = <<>> /\ ref_inv = RotIdentity
    /\ end_points = <<>> /\ seq_points = <<>> /\ output = <<>>

NoAverageCall == qs = <<>> /\ avg = Quaterniond(1, 0, 0, 0)

NoMarginCall ==
    /\ segment = <<>> /\ offset = 0 /\ new_segment = <<>>
    /\ forward_index = 0 /\ forward_dist = 0
    /\ reverse_index = 0 /\ reverse_dist = 0

InitMargins ==
    /\ pc = "call"
    /\ segment \in MarginSegments
    /\ offset \in 0..MaxOffset
    /\ new_segment = <<>>
    /\ forward_index = 0 /\ forward_dist = 0
    /\ reverse_index = 0 /\ reverse_dist = 0
    /\ NoSequenceCall
    /\ NoAverageCall

ApplyMargins ==
    /\ pc = "call"
    /\ segment # <<>>
    /\ LET r == applyMargins(segment, offset) IN
         /\ pc' = r.end
         /\ forward_index' = r.fwd.index
         /\ forward_dist' = r.fwd.dist
         /\ reverse_index' = r.rev.index
         /\ reverse_dist' = r.rev.dist
         /\ new_segment' = r.value
    /\ UNCHANGED <<segment, offset, sequenceVars, averageVars>>

NextMargins == ApplyMargins

SpecMargins == InitMargins /\ [][NextMargins]_vars

---------------------------------------------------------------------------
(* Conversions between geometry_msgs::Pose and Eigen::Affine3d *)

Pose(position, orientation) == [position |-> position, orientation |-> orientation]

\* tf::poseMsgToEigen: the translation, and the rotation matrix of the quaternion
\* (q and -q give the same matrix).
poseMsgToEigen(m) == Affine3d(m.position, toRotationMatrix(m.orientation))

\* tf::poseEigenToMsg: the quaternion of the rotation matrix, negated when w < 0.
poseEigenToMsg(e) ==
    LET q == QuaternionOfMatrix(e.linear) IN
    Pose(e.translation,
         IF q.w < 0 THEN Quaterniond(-q.w, -q.x, -q.y, -q.z) ELSE q)

\* toEigen(const geometry_msgs::PoseArray&)
RECURSIVE toEigen(_)
toEigen(p) ==
    IF p = <<>> THEN <<>> ELSE <<poseMsgToEigen(Head(p))>> \o toEigen(Tail(p))

\* toEigen(const std::vector<geometry_msgs::PoseArray>&)
RECURSIVE toEigenAll(_)
toEigenAll(ps) ==
    IF ps = <<>> THEN <<>> ELSE <<toEigen(Head(ps))>> \o toEigenAll(Tail(ps))

---------------------------------------------------------------------------
(* average: the eigenvector of Q * Q^T of the largest eigenvalue *)

\* Q * Q.transpose(), Q the 4 x N matrix whose columns are the coefficients.
RECURSIVE QQt(_, _, _)
QQt(q, i, j) ==
    IF q = <<>> THEN 0
    ELSE coeffs(Head(q))[i] * coeffs(Head(q))[j] + QQt(Tail(q), i, j)

Q_prime(q) ==
    << <<QQt(q, 1, 1), QQt(q, 1, 2), QQt(q, 1, 3), QQt(q, 1, 4)>>,
       <<QQt(q, 2, 1), QQt(q, 2, 2), QQt(q, 2, 3), QQt(q, 2, 4)>>,
       <<QQt(q, 3, 1), QQt(q, 3, 2), QQt(q, 3, 3), QQt(q, 3, 4)>>,
       <<QQt(q, 4, 1), QQt(q, 4, 2), QQt(q, 4, 3), QQt(q, 4, 4)>> >>

\* The orders of the indices S in which the eigenvalues M[i][i] never decrease.
RECURSIVE IncreasingOrders(_, _)
IncreasingOrders(M, S) ==
    IF S = {} THEN {<<>>}
    ELSE UNION { { <<m>> \o rest : rest \in IncreasingOrders(M, S \ {m}) } :
                 m \in {i \in S : \A j \in S : M[i][i] <= M[j][j]} }

UnitVector(k, sign) ==
    << IF k = 1 THEN sign ELSE 0, IF k = 2 THEN sign ELSE 0,
       IF k = 3 THEN sign ELSE 0, IF k = 4 THEN sign ELSE 0 >>

\* SelfAdjointEigenSolver on a diagonal matrix (Q * Q^T is one for the
\* quaternions of the model): the eigenvalues are the diagonal
\* entries in increasing order and the eigenvectors the matching unit vectors.
\* The order among equal eigenvalues and the sign of the eigenvectors are the
\* solver's: every order that sorts, and either sign, is an outcome.
SelfAdjointEigenSolver(M) ==
    { [eigenvalues |-> <<M[perm[1]][perm[1]], M[perm[2]][perm[2]],
                         M[perm[3]][perm[3]], M[perm[4]][perm[4]]>>,
       eigenvectors |-> <<UnitVector(perm[1], sign), UnitVector(perm[2], sign),
                          UnitVector(perm[3], sign), UnitVector(perm[4], sign)>>] :
      perm \in IncreasingOrders(M, 1..4),
      sign \in {1, -1} }

\* The loop of average() over the eigenvalues (i, max_idx are the code's plus one).
RECURSIVE MaxIndexLoop(_, _, _, _)
MaxIndexLoop(eigen_vals, i, max_idx, max_value) ==
    IF i > Len(eigen_vals) THEN max_idx
    ELSE IF eigen_vals[i] > max_value
    THEN MaxIndexLoop(eigen_vals, i + 1, i, eigen_vals[i])
    ELSE MaxIndexLoop(eigen_vals, i + 1, max_idx, max_value)

MaxIndex(eigen_vals) == MaxIndexLoop(eigen_vals, 1, 1, 0)

\* A slip: the coefficients handed to Quaterniond(w, x, y, z) in the order of
\* coeffs().
QuaternionOfCoeffs_InCoeffsOrder(c) == Quaterniond(c[1], c[2], c[3], c[4])

\* Eigen::Quaterniond avg_quat (coeffs(3), coeffs(0), coeffs(1), coeffs(2))
QuaternionOfCoeffs(c) == Quaterniond(c[4], c[1], c[2], c[3])

\* average(qs): the quaternions it can return.
average(q) ==
    { QuaternionOfCoeffs(es.eigenvectors[MaxIndex(es.eigenvalues)]) :
      es \in SelfAdjointEigenSolver(Q_prime(q)) }

\* The loop of averageQuaternion: qs.push_back(Eigen::Quaterniond(p.rotation())).
RECURSIVE RotationQuaternions(_)
RotationQuaternions(poses) ==
    IF poses = <<>> THEN <<>>
    ELSE <<QuaternionOfMatrix(Head(poses).linear)>> \o RotationQuaternions(Tail(poses))

averageQuaternion(poses) == average(RotationQuaternions(poses))

---------------------------------------------------------------------------
(* sequence *)

front(s) == s[1]

back(s) == s[Len(s)]

\* longestSegment: i, max_index are the code's plus one.
RECURSIVE LongestSegmentLoop(_, _, _, _)
LongestSegmentLoop(segments, i, max_index, max_dist) ==
    IF i > Len(segments) THEN max_index
    ELSE LET dist == squaredNorm(VecSub(front(segments[i]).translation,
                                        back(segments[i]).translation)) IN
         IF dist > max_dist
         THEN LongestSegmentLoop(segments, i + 1, i, dist)
         ELSE LongestSegmentLoop(segments, i + 1, max_index, max_dist)

longestSegment(segments) == LongestSegmentLoop(segments, 1, 1, 0)

\* ref_inv of toEndPoints: the rotation matrix of ref_rotation.inverse().
RefInv(ref_rotation) == RotInverse(toRotationMatrix(ref_rotation))

\* toEndPoints: the end points of every segment, rotated by the inverse of
\* ref_rotation; id is the index into segments.
RECURSIVE EndPointsLoop(_, _, _)
EndPointsLoop(segments, ref_rotation, i) ==
    IF i > Len(segments) THEN <<>>
    ELSE << [a |-> RotApply(RefInv(ref_rotation), front(segments[i]).translation),
             b |-> RotApply(RefInv(ref_rotation), back(segments[i]).translation),
             id |-> i] >>
         \o EndPointsLoop(segments, ref_rotation, i + 1)

toEndPoints(segments, ref_rotation) == EndPointsLoop(segments, ref_rotation, 1)

\* A slip: the key taken from end point A alone.
LateralValue_OnlyA(ep) == ep.a[2]

\* The key of the sort of sequence().
LateralValue(ep) == Min(ep.a[2], ep.b[2])

\* The comparator handed to std::sort.
EndPointLess(lhs, rhs) == LateralValue(lhs) < LateralValue(rhs)

\* std::sort: the orders it can leave.  No element is ordered before one
\* that the comparator puts before it; equivalent elements come in any order.
RECURSIVE SortedOrders(_, _)
SortedOrders(eps, S) ==
    IF S = {} THEN {<<>>}
    ELSE UNION { { <<eps[m]>> \o rest : rest \in SortedOrders(eps, S \ {m}) } :
                 m \in {i \in S : \A j \in S : ~EndPointLess(eps[j], eps[i])} }

SortedEndPoints(eps) == SortedOrders(eps, 1..Len(eps))

SequencePoint(id, from_a) == [id |-> id, from_a |-> from_a]

\* The lambda current_position.
current_position(eps, p) == IF p.from_a THEN eps[p.id].b ELSE eps[p.id].a

\* A slip: a tie goes to A.
FromA_TieToA(ep, current_pos) ==
    squaredNorm(VecSub(ep.a, current_pos)) <= squaredNorm(VecSub(ep.b, current_pos))

\* from_a of the loop: is A of the next path closer than B?
FromA(ep, current_pos) ==
    squaredNorm(VecSub(ep.a, current_pos)) < squaredNorm(VecSub(ep.b, current_pos))

\* The loop of sequence() from i (the code's i plus one) on.
RECURSIVE SequenceLoop(_, _, _)
SequenceLoop(eps, i, sequence) ==
    IF i > Len(eps) THEN sequence
    ELSE SequenceLoop(eps, i + 1,
            Append(sequence,
                   SequencePoint(i, FromA(eps[i],
                                          current_position(eps, sequence[Len(sequence)])))))

\* A slip: the loop stops one end point early.
SequencePoints_StopsEarly(eps) ==
    SequenceLoop(SubSeq(eps, 1, Len(eps) - 1), 2, <<SequencePoint(1, TRUE)>>)

\* The sequence points: {0, true}, then the loop.
SequencePoints(eps) == SequenceLoop(eps, 2, <<SequencePoint(1, TRUE)>>)

\* std::reverse
RECURSIVE ReverseSeq(_)
ReverseSeq(s) == IF s = <<>> THEN <<>> ELSE Append(ReverseSeq(Tail(s)), Head(s))

\* The loop of reversePathAndPoses: each pose turned by pi about its own Z.
RECURSIVE TurnPoses(_)
TurnPoses(poses) ==
    IF poses = <<>> THEN <<>>
    ELSE LET eig == poseMsgToEigen(Head(poses)) IN
         <<poseEigenToMsg(Affine3d(eig.translation, RotMul(eig.linear, AngleAxisPiZ)))>>
         \o TurnPoses(Tail(poses))

reversePathAndPoses(path) == TurnPoses(ReverseSeq(path))

\* The loop of makeSequence over seqs.
RECURSIVE makeSequence(_, _, _)
makeSequence(in, seqs, eps) ==
    IF seqs = <<>> THEN <<>>
    ELSE << IF Head(seqs).from_a THEN in[eps[Head(seqs).id].id]
            ELSE reversePathAndPoses(in[eps[Head(seqs).id].id]) >>
         \o makeSequence(in, Tail(seqs), eps)

\* The inputs of sequence: lists of up to MaxSegs segments of one or two poses
\* at the corners of the unit square of the plane z = 0, all poses of a list
\* in one orientation (identity, or pi about X, which turns the lateral axis
\* over), as the paths of one raster plan are.
SeqOrientations == {Quaterniond(1, 0, 0, 0), Quaterniond(0, 1, 0, 0)}

SeqPoints == {Vector3d(x, y, 0) : x \in {0, 1}, y \in {0, 1}}

\* The segments in orientation q: a single pose, or a lane of two poses that
\* crosses the unit square in x (straight or diagonal, in either direction).
SeqLanes == { l \in SeqPoints \X SeqPoints : l[1][1] # l[2][1] }
SeqSegments(q) ==
    { <<Pose(p, q)>> : p \in SeqPoints } \cup
    { <<Pose(l[1], q), Pose(l[2], q)>> : l \in SeqLanes }

InitSequence ==
    /\ pc = "call"
    /\ \E q \in SeqOrientations, n \in 0..MaxSegs : input \in [1..n -> SeqSegments(q)]
    /\ ref_inv = RotIdentity
    /\ end_points = <<>> /\ seq_points = <<>> /\ output = <<>>
    /\ NoMarginCall
    /\ NoAverageCall

Sequence ==
    /\ pc = "call"
    /\ pc' = "done"
    /\ IF input = <<>>
       THEN /\ output' = <<>>
            /\ UNCHANGED <<ref_inv, end_points, seq_points>>
       ELSE LET eigen_poses == toEigenAll(input)
                longest_segment_idx == longestSegment(eigen_poses)
            IN  \E avg_quaternion \in averageQuaternion(eigen_poses[longest_segment_idx]) :
                /\ ref_inv' = RefInv(avg_quaternion)
                /\ end_points' \in SortedEndPoints(toEndPoints(eigen_poses, avg_quaternion))
                /\ seq_points' = SequencePoints(end_points')
                /\ output' = makeSequence(input, seq_points', end_points')
    /\ UNCHANGED <<input, marginVars, averageVars>>

NextSequence == Sequence

SpecSequence == InitSequence /\ [][NextSequence]_vars

---------------------------------------------------------------------------
(* average on its own *)

\* The unit quaternions of the model: 1, i, j, k and their negatives.
UnitQuaternions ==
    { Quaterniond(s, 0, 0, 0) : s \in {1, -1} } \cup
    { Quaterniond(0, s, 0, 0) : s \in {1, -1} } \cup
    { Quaterniond(0, 0, s, 0) : s \in {1, -1} } \cup
    { Quaterniond(0, 0, 0, s) : s \in {1, -1} }

InitAverage ==
    /\ pc = "call"
    /\ qs \in UNION {[1..n -> UnitQuaternions] : n \in 1..MaxQuats}
    /\ avg = Quaterniond(1, 0, 0, 0)
    /\ NoMarginCall
    /\ NoSequenceCall

Average ==
    /\ pc = "call"
    /\ qs # <<>>
    /\ pc' = "done"
    /\ avg' \in average(qs)
    /\ UNCHANGED <<qs, marginVars, sequenceVars>>

NextAverage == Average

SpecAverage == InitAverage /\ [][NextAverage]_vars

---------------------------------------------------------------------------
(* Properties of applyMargins *)

Returned == pc \in {"identity", "trimmed"}

Threw == pc \in {"threw_forward", "threw_reverse"}

\* The arc length from the first sample of s to sample i.
ArcPos(s, i) == segmentLength(SubSeq(s, 1, i))

\* The position at arc length c (0 <= c <= length) along the polyline s.
PointAt(s, c) ==
    IF c = 0 THEN s[1].translation
    ELSE LET i == CHOOSE j \in 2..Len(s) :
                      /\ ArcPos(s, j) >= c
                      /\ \A k \in 2..(j - 1) : ArcPos(s, k) < c
         IN  VecAdd(s[i - 1].translation,
                    VecScale(normalized(VecSub(s[i].translation, s[i - 1].translation)),
                             c - ArcPos(s, i - 1)))

Translations(s) == [i \in 1..Len(s) |-> s[i].translation]

\* C2: margin length law.  Whenever applyMargins trims a non-empty segment
\* of arc length L >= 2 * offset (offset >= 0), the segment it returns has arc
\* length L - 2 * offset, within the tolerance: each of the two cuts may be
\* moved by the tolerance Eps of approxEqual.
C2_LengthLaw ==
    (pc = "trimmed" /\ segmentLength(segment) >= 2 * offset)
        => Abs(segmentLength(new_segment) - (segmentLength(segment) - 2 * offset))
               <= 2 * Eps

\* C3: margin identity on short paths.  A segment whose arc length is
\* strictly less than 2 * offset is returned as it is: same poses, same order,
\* no trim and no error.
C3_ShortIdentity ==
    (pc # "call" /\ segmentLength(segment) < 2 * offset)
        => (pc = "identity" /\ new_segment = segment)

C3_Witness ==
    /\ pc = "identity"
    /\ Len(segment) >= 2
    /\ segmentLength(segment) > 0
    /\ segmentLength(segment) < 2 * offset
    /\ new_segment = segment

\* C4: a single-pose segment is returned unchanged by applyMargins for every
\* offset >= 0, and no error is raised.
C4_SinglePoseIdentity ==
    (pc # "call" /\ Len(segment) = 1)
        => (pc = "identity" /\ new_segment = segment)

\* C5: for a non-empty segment and an offset >= 0 with arc length
\* >= 2 * offset, both scans find a cut: std::logic_error is never thrown.
C5_NoLogicError ==
    (pc # "call" /\ segmentLength(segment) >= 2 * offset) => ~Threw

\* C9: the shape of the trimmed segment.  With L the arc length and the cuts
\* at arc lengths offset and L - offset: a synthesized start point is there
\* iff no sample lies on the start cut, then come the samples from the start
\* cut to the end cut, those on a cut included, unchanged and in order, then a
\* synthesized end point iff no sample lies on the end cut.  Stated for the
\* segments in which no sample lies within Eps of a cut without lying on it,
\* where the cut the code takes and the exact cut are the same.
C9_CutsUnambiguous ==
    \A i \in 1..Len(segment) :
        /\ ArcPos(segment, i) = offset \/ Abs(ArcPos(segment, i) - offset) >= Eps
        /\ \/ ArcPos(segment, i) = segmentLength(segment) - offset
           \/ Abs(ArcPos(segment, i) - (segmentLength(segment) - offset)) >= Eps

C9_KeptIndices ==
    {i \in 1..Len(segment) :
        /\ ArcPos(segment, i) >= offset
        /\ ArcPos(segment, i) <= segmentLength(segment) - offset}

C9_ExpectedTranslations ==
    LET L == segmentLength(segment)
        onStart == \E i \in 1..Len(segment) : ArcPos(segment, i) = offset
        onEnd == \E i \in 1..Len(segment) : ArcPos(segment, i) = L - offset
        kept == Translations(segment)
        keptIdx == C9_KeptIndices
        first == CHOOSE i \in keptIdx : \A j \in keptIdx : i <= j
        last == CHOOSE i \in keptIdx : \A j \in keptIdx : i >= j
    IN  (IF onStart THEN <<>> ELSE <<PointAt(segment, offset)>>)
        \o (IF keptIdx = {} THEN <<>> ELSE SubSeq(kept, first, last))
        \o (IF onEnd THEN <<>> ELSE <<PointAt(segment, L - offset)>>)

C9_Rebuild ==
    (pc = "trimmed" /\ segmentLength(segment) >= 2 * offset /\ C9_CutsUnambiguous)
        => /\ Translations(new_segment) = C9_ExpectedTranslations
           /\ \A i \in C9_KeptIndices :
                 \E k \in 1..Len(new_segment) : new_segment[k] = segment[i]

\* C10: applyMargins returns a non-empty segment for every non-empty segment
\* and every offset >= 0.
C10_NonEmptyResult == Returned => Len(new_segment) >= 1


---------------------------------------------------------------------------
(* Properties of sequence *)

\* out is seg reversed: the poses in reverse order, each at its position and
\* turned by pi about its own Z axis.
IsReversed(out, seg) ==
    /\ Len(out) = Len(seg)
    /\ \A i \in 1..Len(seg) :
          /\ out[i].position = seg[Len(seg) + 1 - i].position
          /\ toRotationMatrix(out[i].orientation)
                = RotMul(toRotationMatrix(seg[Len(seg) + 1 - i].orientation), RotZ)

\* C1: the output of sequence has the length of the input and holds every
\* input segment exactly once, as it is or reversed; the empty input gives
\* the empty output.
C1_Permutation ==
    pc = "done" =>
        /\ Len(output) = Len(input)
        /\ \E perm \in [1..Len(input) -> 1..Len(input)] :
              /\ \A i \in 1..Len(input) : \E k \in 1..Len(input) : perm[k] = i
              /\ \A k \in 1..Len(input) :
                    \/ output[k] = input[perm[k]]
                    \/ IsReversed(output[k], input[perm[k]])

C1_Witness ==
    /\ pc = "done"
    /\ Len(input) = 3
    /\ Len(output) = 3
    /\ output[1] # input[1]
    /\ ~IsReversed(output[1], input[1])
    /\ \E k \in 1..3 : IsReversed(output[k], input[end_points[k].id])

\* C6: the greedy direction rule.  The first output segment is the input
\* segment as it is.  A later one is the input segment as it is iff the exit
\* of the output segment before it (its last pose) is strictly nearer, in
\* squared distance, to end A (the first pose) of the input segment than to
\* its end B (the last pose); otherwise, ties included, it is that segment
\* reversed.
C6_EmittedForward(k) ==
    \/ k = 1
    \/ LET exit == back(output[k - 1]).position
           orig == input[end_points[k].id]
       IN  squaredNorm(VecSub(front(orig).position, exit))
              < squaredNorm(VecSub(back(orig).position, exit))

C6_GreedyDirection ==
    pc = "done" =>
        \A k \in 1..Len(output) :
            IF C6_EmittedForward(k)
            THEN output[k] = input[end_points[k].id]
            ELSE IsReversed(output[k], input[end_points[k].id])

\* Three lanes, each from x = 0 to x = 1: forward, reversed, forward; and a
\* tie has sent a segment out reversed.
C6_Witness ==
    /\ pc = "done"
    /\ Len(output) = 3
    /\ \A k \in 1..3 :
          /\ Len(input[k]) = 2
          /\ front(input[k]).position[1] = 0
          /\ back(input[k]).position[1] = 1
          /\ front(input[k]).position[2] = back(input[k]).position[2]
    /\ output[1] = input[end_points[1].id]
    /\ IsReversed(output[2], input[end_points[2].id])
    /\ output[3] = input[end_points[3].id]

C6_TieWitness ==
    /\ pc = "done"
    /\ \E k \in 2..Len(output) :
          LET exit == back(output[k - 1]).position
              orig == input[end_points[k].id]
          IN  /\ front(orig).position # back(orig).position
              /\ squaredNorm(VecSub(front(orig).position, exit))
                    = squaredNorm(VecSub(back(orig).position, exit))
              /\ IsReversed(output[k], orig)

\* C8: the output segments come in non-decreasing lateral value, the lateral
\* value of a segment being the smaller y of its two end positions in the
\* reference frame, whichever way the segment was sent out.
C8_Lateral(seg) ==
    Min(RotApply(ref_inv, front(seg).position)[2],
        RotApply(ref_inv, back(seg).position)[2])

C8_LateralOrder ==
    pc = "done" =>
        \A k \in 1..(Len(output) - 1) :
            C8_Lateral(output[k]) <= C8_Lateral(output[k + 1])

C8_Witness ==
    /\ pc = "done"
    /\ Len(output) = 3
    /\ ref_inv # RotIdentity
    /\ end_points[1].id # 1
    /\ C8_Lateral(output[1]) < C8_Lateral(output[3])
    /\ \E k \in 1..3 :
          /\ IsReversed(output[k], input[end_points[k].id])
          /\ front(output[k]).position[2] # back(output[k]).position[2]

---------------------------------------------------------------------------
(* Properties of average *)

Negated(q) == Quaterniond(-q.w, -q.x, -q.y, -q.z)

\* C7: the average of N >= 1 copies of one unit quaternion is that
\* quaternion, up to sign.
C7_AverageOfCopies ==
    (pc = "done" /\ \A i \in 1..Len(qs) : qs[i] = qs[1])
        => (avg = qs[1] \/ avg = Negated(qs[1]))

C7_Witness ==
    /\ pc = "done"
    /\ Len(qs) = 3
    /\ \A i \in 1..Len(qs) : qs[i] = qs[1]
    /\ qs[1].w = 0
    /\ avg = Negated(qs[1])

C7_SingleWitness ==
    /\ pc = "done"
    /\ Len(qs) = 1
    /\ avg = qs[1]

===========================================================================
